---- MODULE Spec2Model ----
(***************************************************************************)
(* Academic Service (src/acad-service/main.py).                            *)
(*                                                                         *)
(* Spec     : the three admin-only create endpoints, run by concurrent     *)
(*            workers, each step of a handler being one action: the        *)
(*            verify_admin dependency, the connection context manager,     *)
(*            the SELECT existence checks, the INSERT and the exit of      *)
(*            the context manager (commit / rollback / close).             *)
(* SpecGpa  : the two read-only grade-point endpoints (hitung_ips,         *)
(*            hitung_ipk) applied to every consistent store within the     *)
(*            bounds.                                                      *)
(*                                                                         *)
(* The PostgreSQL schema and the bobot_nilai seed data are not part of     *)
(* main.py; the store's constraints and the weight table are modelled      *)
(* from the specification document (sections 2, 3, 4.3 and 5).             *)
(***************************************************************************)
EXTENDS Integers, Sequences, FiniteSets, TLC

VARIABLES mahasiswa, mata_kuliah, krs, krs_seq,
          pc, req, auth, conn, txn, pend, exc, status, created_by,
          checked, present, nreq, report

storeVars == <<mahasiswa, mata_kuliah, krs>>
vars == <<mahasiswa, mata_kuliah, krs, krs_seq,
          pc, req, auth, conn, txn, pend, exc, status, created_by,
          checked, present, nreq, report>>

----------------------------------------------------------------------------
(* Bounds *)

MaxReq == 4
MaxSem == 3
MaxRows == 4

(* Program constants (pydantic Field ranges) *)
SksMin == 1
SksMax == 6
SemesterMin == 1
SemesterMax == 14

(* two workers serve requests concurrently *)
Procs == {"w1", "w2"}

NULL == "NULL"
Nims == {"n1", "n2"}
Kodes == {"k1", "k2"}
SksOf == [k \in Kodes |-> IF k = "k1" THEN 1 ELSE 3]
Grades == {NULL, "A", "C", "Z"}

(* Inputs of the concurrent specification: kept small, the race is on one key *)
ReqNims == {"n1"}
ReqNama == {"x", "y"}
ReqKodes == {"k1"}
ReqSks == {1, 3}
ReqGrades == {"A"}
ReqSems == {1}

NoUser == [username |-> "-", role |-> "-"]
AdminUser == [username |-> "adm", role |-> "admin"]
PlainUser == [username |-> "usr", role |-> "mahasiswa"]

NoHeader == ""
Authorizations == {NoHeader, "Bearer t"}

(* What the auth service can answer to POST /api/auth/verify *)
AuthResponses ==
    { [reachable |-> FALSE, status_code |-> 0,   json_ok |-> FALSE, user |-> NoUser],
      [reachable |-> TRUE,  status_code |-> 401, json_ok |-> TRUE,  user |-> NoUser],
      [reachable |-> TRUE,  status_code |-> 200, json_ok |-> FALSE, user |-> NoUser],
      [reachable |-> TRUE,  status_code |-> 200, json_ok |-> TRUE,  user |-> NoUser],
      [reachable |-> TRUE,  status_code |-> 200, json_ok |-> TRUE,  user |-> PlainUser],
      [reachable |-> TRUE,  status_code |-> 200, json_ok |-> TRUE,  user |-> AdminUser] }

NoResponse == [reachable |-> FALSE, status_code |-> -1, json_ok |-> FALSE, user |-> NoUser]

----------------------------------------------------------------------------
(* Admission gate: verify_admin *)

(* variant: an invalid credential is answered 403 instead of 401 *)
VerifyAdminInvalidForbidden(authorization, resp) ==
    IF authorization = NoHeader
      THEN [code |-> 401, user |-> NoUser, calls |-> 0]
    ELSE IF ~resp.reachable
      THEN [code |-> 503, user |-> NoUser, calls |-> 1]
    ELSE IF resp.status_code # 200
      THEN [code |-> 403, user |-> NoUser, calls |-> 1]
    ELSE IF ~resp.json_ok
      THEN [code |-> 401, user |-> NoUser, calls |-> 1]
    ELSE IF resp.user = NoUser \/ resp.user.role # "admin"
      THEN [code |-> 403, user |-> NoUser, calls |-> 1]
    ELSE [code |-> 0, user |-> resp.user, calls |-> 1]

VerifyAdmin(authorization, resp) ==
    IF authorization = NoHeader
      THEN [code |-> 401, user |-> NoUser, calls |-> 0]
    ELSE IF ~resp.reachable
      THEN [code |-> 503, user |-> NoUser, calls |-> 1]
    ELSE IF resp.status_code # 200
      THEN [code |-> 401, user |-> NoUser, calls |-> 1]
    ELSE IF ~resp.json_ok
      THEN [code |-> 401, user |-> NoUser, calls |-> 1]
    ELSE IF resp.user = NoUser \/ resp.user.role # "admin"
      THEN [code |-> 403, user |-> NoUser, calls |-> 1]
    ELSE [code |-> 0, user |-> resp.user, calls |-> 1]

NoAuth == [code |-> -1, user |-> NoUser, calls |-> 0, resp |-> NoResponse]

Authorized(p) == auth[p].code = 0

(* variant: the handler is called whatever the dependency decided *)
GateAdmitsAll(v) == TRUE

(* Depends(verify_admin): the handler body is called only when the dependency
   returned a user; an HTTPException raised by it ends the request *)
GateAdmits(v) == v.code = 0

----------------------------------------------------------------------------
(* Requests *)

NoRow == [tbl |-> "none", nim |-> "-", nama |-> "-", kode_mk |-> "-", sks |-> 0,
          nilai |-> NULL, semester |-> 0, id_krs |-> 0]

NoReq == [op |-> "none", nim |-> "-", nama |-> "-", kode_mk |-> "-", sks |-> 0,
          nilai |-> NULL, semester |-> 0, authorization |-> NoHeader]

(* pydantic models MataKuliah and KRS: a body outside the Field ranges never
   reaches the handler *)
ValidBody(r) ==
    /\ r.op = "mata_kuliah" => (SksMin <= r.sks /\ r.sks <= SksMax)
    /\ r.op = "nilai" => (SemesterMin <= r.semester /\ r.semester <= SemesterMax)

Requests ==
  { r \in
    { [op |-> "mahasiswa", nim |-> n, nama |-> m, kode_mk |-> "-", sks |-> 0,
       nilai |-> NULL, semester |-> 0, authorization |-> a] :
         n \in ReqNims, m \in ReqNama, a \in Authorizations }
    \cup
    { [op |-> "mata_kuliah", nim |-> "-", nama |-> "-", kode_mk |-> k, sks |-> s,
       nilai |-> NULL, semester |-> 0, authorization |-> a] :
         k \in ReqKodes, s \in ReqSks, a \in Authorizations }
    \cup
    { [op |-> "nilai", nim |-> n, nama |-> "-", kode_mk |-> k, sks |-> 0,
       nilai |-> g, semester |-> t, authorization |-> a] :
         n \in ReqNims, k \in ReqKodes, g \in ReqGrades, t \in ReqSems,
         a \in Authorizations }
    : ValidBody(r) }

(* Record store: the existence checks made by the handlers (READ COMMITTED:
   a SELECT sees the committed rows; a handler never reads its own insert) *)

(* create_mahasiswa: SELECT nim FROM mahasiswa WHERE nim = %s *)
NimTerdaftar(nim) == \E m \in mahasiswa : m.nim = nim

(* variant: the existence check never finds a row *)
KodeMkNeverFound(kode_mk) == FALSE

(* create_mata_kuliah: SELECT kode_mk FROM mata_kuliah WHERE kode_mk = %s *)
KodeMkAda(kode_mk) == \E c \in mata_kuliah : c.kode_mk = kode_mk

(* variant: the existence check always finds a row *)
MahasiswaAlwaysFound(nim) == TRUE

(* create_nilai: SELECT nim FROM mahasiswa WHERE nim = %s *)
MahasiswaAda(nim) == \E m \in mahasiswa : m.nim = nim

(* create_nilai: SELECT kode_mk FROM mata_kuliah WHERE kode_mk = %s *)
MataKuliahAda(kode_mk) == \E c \in mata_kuliah : c.kode_mk = kode_mk

KrsAda(nim, kode_mk, semester) ==
    \E r \in krs : r.nim = nim /\ r.kode_mk = kode_mk /\ r.semester = semester

(* whether the key of request r is already stored when r arrives *)
KeyPresent(r) ==
    CASE r.op = "mahasiswa" -> \E m \in mahasiswa : m.nim = r.nim
      [] r.op = "mata_kuliah" -> \E c \in mata_kuliah : c.kode_mk = r.kode_mk
      [] OTHER -> \E k \in krs : /\ k.nim = r.nim
                                /\ k.kode_mk = r.kode_mk
                                /\ k.semester = r.semester

NoReport == [kind |-> "none", status |-> 0, nim |-> "-", semester |-> 0,
             total_sks |-> 0, total_mutu |-> 0, ip |-> 0, detail |-> <<>>]

Init ==
    /\ mahasiswa = {}
    /\ mata_kuliah = {}
    /\ krs = {}
    /\ krs_seq = 1
    /\ pc = [p \in Procs |-> "idle"]
    /\ req = [p \in Procs |-> NoReq]
    /\ auth = [p \in Procs |-> NoAuth]
    /\ conn = [p \in Procs |-> "none"]
    /\ txn = [p \in Procs |-> "none"]
    /\ pend = [p \in Procs |-> NoRow]
    /\ exc = [p \in Procs |-> "none"]
    /\ status = [p \in Procs |-> 0]
    /\ created_by = [p \in Procs |-> "-"]
    /\ checked = [p \in Procs |-> FALSE]
    /\ present = [p \in Procs |-> FALSE]
    /\ nreq = 0
    /\ report = NoReport

(* A request arrives at a free worker *)
Start(p) ==
    /\ pc[p] \in {"idle", "done"}
    /\ nreq < MaxReq
    /\ \E r \in Requests :
         /\ req' = [req EXCEPT ![p] = r]
         /\ present' = [present EXCEPT ![p] = KeyPresent(r)]
    /\ pc' = [pc EXCEPT ![p] = "auth"]
    /\ auth' = [auth EXCEPT ![p] = NoAuth]
    /\ conn' = [conn EXCEPT ![p] = "none"]
    /\ txn' = [txn EXCEPT ![p] = "none"]
    /\ pend' = [pend EXCEPT ![p] = NoRow]
    /\ exc' = [exc EXCEPT ![p] = "none"]
    /\ status' = [status EXCEPT ![p] = 0]
    /\ created_by' = [created_by EXCEPT ![p] = "-"]
    /\ checked' = [checked EXCEPT ![p] = FALSE]
    /\ nreq' = nreq + 1
    /\ UNCHANGED <<mahasiswa, mata_kuliah, krs, krs_seq, report>>

(* The dependency verify_admin runs to completion before the handler body *)
Verify(p) ==
    /\ pc[p] = "auth"
    /\ \E resp \in AuthResponses :
         LET v == VerifyAdmin(req[p].authorization, resp) IN
           /\ auth' = [auth EXCEPT ![p] =
                         [code |-> v.code, user |-> v.user, calls |-> v.calls,
                          resp |-> IF v.calls = 0 THEN NoResponse ELSE resp]]
           /\ IF GateAdmits(v)
                THEN /\ pc' = [pc EXCEPT ![p] = "handler"]
                     /\ UNCHANGED status
                ELSE /\ pc' = [pc EXCEPT ![p] = "done"]
                     /\ status' = [status EXCEPT ![p] = v.code]
    /\ UNCHANGED <<mahasiswa, mata_kuliah, krs, krs_seq, req, conn, txn, pend,
                   exc, created_by, checked, present, nreq, report>>

----------------------------------------------------------------------------
(* Record store: constraints enforced by the database on INSERT *)

PkMahasiswaViolated(nim) == \E m \in mahasiswa : m.nim = nim

PkMataKuliahViolated(kode_mk) == \E c \in mata_kuliah : c.kode_mk = kode_mk

(* variant: no unique constraint on (nim, kode_mk, semester) *)
UniqueKrsNotEnforced(nim, kode_mk, semester) == FALSE

UniqueKrsViolated(nim, kode_mk, semester) ==
    \E r \in krs : r.nim = nim /\ r.kode_mk = kode_mk /\ r.semester = semester

FkKrsViolated(nim, kode_mk) ==
    \/ ~ \E m \in mahasiswa : m.nim = nim
    \/ ~ \E c \in mata_kuliah : c.kode_mk = kode_mk

(* An INSERT waits while another open transaction holds an uncommitted row
   with the same key *)
SameKey(a, b) ==
    /\ a.tbl = b.tbl
    /\ a.tbl # "none"
    /\ a.nim = b.nim
    /\ a.kode_mk = b.kode_mk
    /\ a.semester = b.semester

InsertWaits(p, row) == \E q \in Procs \ {p} : SameKey(pend[q], row)

(* variant: the transaction is committed on every exit *)
ContextExitAlwaysCommit(e) == "committed"

(* get_db_connection: what the context manager does when the body is left *)
ContextExit(e) == IF e = "none" THEN "committed" ELSE "rolledback"

(* the handlers' except clauses: HTTPException is re-raised, anything else
   becomes a 500 *)
HandlerStatus(e) ==
    CASE e = "none" -> 201
      [] e = "HTTP400" -> 400
      [] e = "HTTP404" -> 404
      [] OTHER -> 500

(* with get_db_connection() as conn: psycopg2.connect opens the transaction *)
Connect(p) ==
    /\ pc[p] = "handler"
    /\ conn' = [conn EXCEPT ![p] = "open"]
    /\ txn' = [txn EXCEPT ![p] = "active"]
    /\ pc' = [pc EXCEPT ![p] = "select1"]
    /\ UNCHANGED <<mahasiswa, mata_kuliah, krs, krs_seq, req, auth, pend, exc,
                   status, created_by, checked, present, nreq, report>>

Raise(p, e) ==
    /\ exc' = [exc EXCEPT ![p] = e]
    /\ pc' = [pc EXCEPT ![p] = "exit"]

Goto(p, l) ==
    /\ pc' = [pc EXCEPT ![p] = l]
    /\ UNCHANGED exc

(* create_mahasiswa, lines 149-151 *)
SelectNim(p) ==
    /\ pc[p] = "select1"
    /\ req[p].op = "mahasiswa"
    /\ IF NimTerdaftar(req[p].nim) THEN Raise(p, "HTTP400") ELSE Goto(p, "insert")
    /\ UNCHANGED <<mahasiswa, mata_kuliah, krs, krs_seq, req, auth, conn, txn,
                   pend, status, created_by, checked, present, nreq, report>>

(* create_mahasiswa, lines 153-165 *)
InsertMahasiswa(p) ==
    LET row == [NoRow EXCEPT !.tbl = "mahasiswa", !.nim = req[p].nim,
                             !.nama = req[p].nama] IN
    /\ pc[p] = "insert"
    /\ req[p].op = "mahasiswa"
    /\ ~InsertWaits(p, row)
    /\ IF PkMahasiswaViolated(req[p].nim)
         THEN /\ Raise(p, "IntegrityError")
              /\ UNCHANGED pend
         ELSE /\ pend' = [pend EXCEPT ![p] = row]
              /\ Goto(p, "exit")
    /\ UNCHANGED <<mahasiswa, mata_kuliah, krs, krs_seq, req, auth, conn, txn,
                   status, created_by, checked, present, nreq, report>>

(* create_mata_kuliah, lines 214-216 *)
SelectKodeMk(p) ==
    /\ pc[p] = "select1"
    /\ req[p].op = "mata_kuliah"
    /\ IF KodeMkAda(req[p].kode_mk) THEN Raise(p, "HTTP400") ELSE Goto(p, "insert")
    /\ UNCHANGED <<mahasiswa, mata_kuliah, krs, krs_seq, req, auth, conn, txn,
                   pend, status, created_by, checked, present, nreq, report>>

(* create_mata_kuliah, lines 218-229 *)
InsertMataKuliah(p) ==
    LET row == [NoRow EXCEPT !.tbl = "mata_kuliah", !.kode_mk = req[p].kode_mk,
                             !.sks = req[p].sks] IN
    /\ pc[p] = "insert"
    /\ req[p].op = "mata_kuliah"
    /\ ~InsertWaits(p, row)
    /\ IF PkMataKuliahViolated(req[p].kode_mk)
         THEN /\ Raise(p, "IntegrityError")
              /\ UNCHANGED pend
         ELSE /\ pend' = [pend EXCEPT ![p] = row]
              /\ Goto(p, "exit")
    /\ UNCHANGED <<mahasiswa, mata_kuliah, krs, krs_seq, req, auth, conn, txn,
                   status, created_by, checked, present, nreq, report>>

(* create_nilai, lines 303-305 *)
SelectMahasiswa(p) ==
    /\ pc[p] = "select1"
    /\ req[p].op = "nilai"
    /\ IF MahasiswaAda(req[p].nim) THEN Goto(p, "select2") ELSE Raise(p, "HTTP404")
    /\ UNCHANGED <<mahasiswa, mata_kuliah, krs, krs_seq, req, auth, conn, txn,
                   pend, status, created_by, checked, present, nreq, report>>

(* create_nilai, lines 308-310 *)
SelectMataKuliah(p) ==
    /\ pc[p] = "select2"
    /\ req[p].op = "nilai"
    /\ IF MataKuliahAda(req[p].kode_mk) THEN Goto(p, "select3") ELSE Raise(p, "HTTP404")
    /\ UNCHANGED <<mahasiswa, mata_kuliah, krs, krs_seq, req, auth, conn, txn,
                   pend, status, created_by, checked, present, nreq, report>>

(* create_nilai, lines 313-321; checked records that the SELECT found no row *)
SelectKrs(p) ==
    /\ pc[p] = "select3"
    /\ req[p].op = "nilai"
    /\ IF KrsAda(req[p].nim, req[p].kode_mk, req[p].semester)
         THEN /\ Raise(p, "HTTP400")
              /\ UNCHANGED checked
         ELSE /\ Goto(p, "insert")
              /\ checked' = [checked EXCEPT ![p] = TRUE]
    /\ UNCHANGED <<mahasiswa, mata_kuliah, krs, krs_seq, req, auth, conn, txn,
                   pend, status, created_by, present, nreq, report>>

(* create_nilai, lines 323-335; id_krs is drawn from the sequence before the
   constraints are checked *)
InsertKrs(p) ==
    LET row == [NoRow EXCEPT !.tbl = "krs", !.nim = req[p].nim,
                             !.kode_mk = req[p].kode_mk, !.nilai = req[p].nilai,
                             !.semester = req[p].semester, !.id_krs = krs_seq] IN
    /\ pc[p] = "insert"
    /\ req[p].op = "nilai"
    /\ ~InsertWaits(p, row)
    /\ krs_seq' = krs_seq + 1
    /\ IF \/ FkKrsViolated(req[p].nim, req[p].kode_mk)
          \/ UniqueKrsViolated(req[p].nim, req[p].kode_mk, req[p].semester)
         THEN /\ Raise(p, "IntegrityError")
              /\ UNCHANGED pend
         ELSE /\ pend' = [pend EXCEPT ![p] = row]
              /\ Goto(p, "exit")
    /\ UNCHANGED <<mahasiswa, mata_kuliah, krs, req, auth, conn, txn,
                   status, created_by, checked, present, nreq, report>>

(* the committed tables after the transaction of p ends with outcome o *)
Applied(p, o, tbl, old) ==
    IF o = "committed" /\ pend[p].tbl = tbl
      THEN CASE tbl = "mahasiswa" -> old \cup {[nim |-> pend[p].nim, nama |-> pend[p].nama]}
             [] tbl = "mata_kuliah" ->
                  old \cup {[kode_mk |-> pend[p].kode_mk, sks |-> pend[p].sks]}
             [] OTHER ->
                  old \cup {[id_krs |-> pend[p].id_krs, nim |-> pend[p].nim,
                             kode_mk |-> pend[p].kode_mk, nilai |-> pend[p].nilai,
                             semester |-> pend[p].semester]}
      ELSE old

(* leaving the with block: commit or rollback, close, then the handler's
   except clauses and the response *)
ExitContext(p) ==
    LET o == ContextExit(exc[p]) IN
    /\ pc[p] = "exit"
    /\ mahasiswa' = Applied(p, o, "mahasiswa", mahasiswa)
    /\ mata_kuliah' = Applied(p, o, "mata_kuliah", mata_kuliah)
    /\ krs' = Applied(p, o, "krs", krs)
    /\ txn' = [txn EXCEPT ![p] = o]
    /\ conn' = [conn EXCEPT ![p] = "closed"]
    /\ pend' = [pend EXCEPT ![p] = NoRow]
    /\ status' = [status EXCEPT ![p] = HandlerStatus(exc[p])]
    /\ created_by' = [created_by EXCEPT ![p] =
                        IF exc[p] = "none" THEN auth[p].user.username ELSE "-"]
    /\ pc' = [pc EXCEPT ![p] = "done"]
    /\ UNCHANGED <<krs_seq, req, auth, exc, checked, present, nreq, report>>

Next ==
    \E p \in Procs :
      \/ Start(p)
      \/ Verify(p)
      \/ Connect(p)
      \/ SelectNim(p)
      \/ InsertMahasiswa(p)
      \/ SelectKodeMk(p)
      \/ InsertMataKuliah(p)
      \/ SelectMahasiswa(p)
      \/ SelectMataKuliah(p)
      \/ SelectKrs(p)
      \/ InsertKrs(p)
      \/ ExitContext(p)

Spec == Init /\ [][Next]_vars

----------------------------------------------------------------------------
(* Grade weight table bobot_nilai: letter grade -> weight on the 0-4 scale *)

BobotNilai == [n \in {"A", "B", "C", "D", "E"} |->
                 CASE n = "A" -> 4 [] n = "B" -> 3 [] n = "C" -> 2
                   [] n = "D" -> 1 [] OTHER -> 0]

None == -1

(* JOIN mata_kuliah ... LEFT JOIN bobot_nilai: one result row per krs row,
   bobot is None when the grade is NULL or has no entry *)
JoinRow(r, c) ==
    [id_krs |-> r.id_krs, semester |-> r.semester, kode_mk |-> r.kode_mk,
     sks |-> c.sks, nilai |-> r.nilai,
     bobot |-> IF r.nilai \in DOMAIN BobotNilai THEN BobotNilai[r.nilai] ELSE None]

(* variant: inner join, rows without a weight entry are dropped *)
InnerJoinBobot(R) ==
    {z \in {JoinRow(x[1], x[2]) :
              x \in {y \in R \X mata_kuliah : y[1].kode_mk = y[2].kode_mk}} :
       z.bobot # None}

LeftJoinBobot(R) ==
    {JoinRow(x[1], x[2]) : x \in {y \in R \X mata_kuliah : y[1].kode_mk = y[2].kode_mk}}

(* variant: the term filter is missing *)
IpsQueryAllTerms(nim, semester) == LeftJoinBobot({r \in krs : r.nim = nim})

(* hitung_ips, lines 370-379: WHERE k.nim = %s AND k.semester = %s *)
IpsQuery(nim, semester) ==
    LeftJoinBobot({r \in krs : r.nim = nim /\ r.semester = semester})

(* hitung_ipk, lines 444-454: WHERE k.nim = %s ORDER BY k.semester *)
IpkQuery(nim) == LeftJoinBobot({r \in krs : r.nim = nim})

Before(a, b) ==
    \/ a.semester < b.semester
    \/ a.semester = b.semester /\ a.id_krs < b.id_krs

RECURSIVE FetchAll(_)
FetchAll(S) ==
    IF S = {} THEN <<>>
    ELSE LET first == CHOOSE a \in S : \A b \in S \ {a} : Before(a, b)
         IN <<first>> \o FetchAll(S \ {first})

(* float(row[4]) if row[4] else 0.0 *)
BobotOf(b) == IF b = None \/ b = 0 THEN 0 ELSE b

(* round(num / den, 2) in hundredths for den > 0 (ties to even, as Python's
   round does on a quotient that is exact in binary; exact for den < 40) *)
Round2(num, den) ==
    LET q == (100 * num) \div den
        r == (100 * num) % den
    IN IF 2 * r < den THEN q
       ELSE IF 2 * r > den THEN q + 1
       ELSE IF q % 2 = 0 THEN q ELSE q + 1

(* total_mutu / total_sks if total_sks > 0 else 0.0, rounded to 2 places *)
Quotient2(total_mutu, total_sks) ==
    IF total_sks > 0 THEN Round2(total_mutu, total_sks) ELSE 0

(* hitung_ips, lines 388-410: the accumulation loop *)
RECURSIVE IpsLoop(_, _)
IpsLoop(rows, acc) ==
    IF rows = <<>> THEN acc
    ELSE LET row == Head(rows)
             bobot == BobotOf(row.bobot)
             mutu == bobot * row.sks
         IN IpsLoop(Tail(rows),
                    [total_mutu |-> acc.total_mutu + mutu,
                     total_sks |-> acc.total_sks + row.sks,
                     mata_kuliah_list |-> Append(acc.mata_kuliah_list,
                         [kode_mk |-> row.kode_mk, sks |-> row.sks,
                          nilai |-> row.nilai, bobot |-> bobot, mutu |-> mutu])])

(* SELECT * FROM mahasiswa WHERE nim = %s *)
CariMahasiswa(nim) == {m \in mahasiswa : m.nim = nim}

NotFoundReport(kind, nim, semester) ==
    [kind |-> kind, status |-> 404, nim |-> nim, semester |-> semester,
     total_sks |-> 0, total_mutu |-> 0, ip |-> 0, detail |-> <<>>]

(* hitung_ips: the response; ip and total_mutu are in hundredths *)
hitung_ips(nim, semester) ==
    IF CariMahasiswa(nim) = {} THEN NotFoundReport("ips", nim, semester)
    ELSE LET rows == FetchAll(IpsQuery(nim, semester)) IN
      IF rows = <<>> THEN NotFoundReport("ips", nim, semester)
      ELSE LET acc == IpsLoop(rows, [total_mutu |-> 0, total_sks |-> 0,
                                     mata_kuliah_list |-> <<>>])
           IN [kind |-> "ips", status |-> 200, nim |-> nim, semester |-> semester,
               total_sks |-> acc.total_sks,
               total_mutu |-> 100 * acc.total_mutu,
               ip |-> Quotient2(acc.total_mutu, acc.total_sks),
               detail |-> acc.mata_kuliah_list]

(* hitung_ipk, lines 463-488: the accumulation loop *)
RECURSIVE IpkLoop(_, _)
IpkLoop(rows, acc) ==
    IF rows = <<>> THEN acc
    ELSE LET row == Head(rows)
             mutu == BobotOf(row.bobot) * row.sks
             old == IF row.semester \in DOMAIN acc.per_semester
                      THEN acc.per_semester[row.semester]
                      ELSE [semester |-> row.semester, total_sks |-> 0,
                            total_mutu |-> 0]
             new == [old EXCEPT !.total_sks = @ + row.sks, !.total_mutu = @ + mutu]
         IN IpkLoop(Tail(rows),
                    [total_mutu_kumulatif |-> acc.total_mutu_kumulatif + mutu,
                     total_sks_kumulatif |-> acc.total_sks_kumulatif + row.sks,
                     per_semester |->
                        [t \in DOMAIN acc.per_semester \cup {row.semester} |->
                           IF t = row.semester THEN new ELSE acc.per_semester[t]]])

(* hitung_ipk, lines 491-495 and 507: per-term figures, sorted by semester *)
RECURSIVE DetailPerSemester(_)
DetailPerSemester(per_semester) ==
    IF DOMAIN per_semester = {} THEN <<>>
    ELSE LET t == CHOOSE a \in DOMAIN per_semester :
                    \A b \in DOMAIN per_semester : a <= b
             e == per_semester[t]
         IN <<[semester |-> t, total_sks |-> e.total_sks,
               total_mutu |-> 100 * e.total_mutu,
               ips |-> Quotient2(e.total_mutu, e.total_sks)]>>
            \o DetailPerSemester([u \in DOMAIN per_semester \ {t} |-> per_semester[u]])

(* variant: the cumulative figure is the mean of the per-term figures *)
hitung_ipk_mean(nim) ==
    IF CariMahasiswa(nim) = {} THEN NotFoundReport("ipk", nim, 0)
    ELSE LET rows == FetchAll(IpkQuery(nim)) IN
      IF rows = <<>> THEN NotFoundReport("ipk", nim, 0)
      ELSE LET acc == IpkLoop(rows, [total_mutu_kumulatif |-> 0,
                                     total_sks_kumulatif |-> 0,
                                     per_semester |-> [t \in {} |-> 0]])
               d == DetailPerSemester(acc.per_semester)
               SumIps[i \in 0..Len(d)] == IF i = 0 THEN 0 ELSE SumIps[i - 1] + d[i].ips
           IN [kind |-> "ipk", status |-> 200, nim |-> nim, semester |-> 0,
               total_sks |-> acc.total_sks_kumulatif,
               total_mutu |-> 100 * acc.total_mutu_kumulatif,
               ip |-> SumIps[Len(d)] \div Len(d),
               detail |-> d]

(* hitung_ipk: the response; ip and the total_mutu fields are in hundredths *)
hitung_ipk(nim) ==
    IF CariMahasiswa(nim) = {} THEN NotFoundReport("ipk", nim, 0)
    ELSE LET rows == FetchAll(IpkQuery(nim)) IN
      IF rows = <<>> THEN NotFoundReport("ipk", nim, 0)
      ELSE LET acc == IpkLoop(rows, [total_mutu_kumulatif |-> 0,
                                     total_sks_kumulatif |-> 0,
                                     per_semester |-> [t \in {} |-> 0]])
           IN [kind |-> "ipk", status |-> 200, nim |-> nim, semester |-> 0,
               total_sks |-> acc.total_sks_kumulatif,
               total_mutu |-> 100 * acc.total_mutu_kumulatif,
               ip |-> Quotient2(acc.total_mutu_kumulatif, acc.total_sks_kumulatif),
               detail |-> DetailPerSemester(acc.per_semester)]

----------------------------------------------------------------------------
(* The grade-point endpoints over every consistent store within the bounds *)

NimIdx(n) == IF n = "n1" THEN 0 ELSE 1
KodeIdx(k) == IF k = "k1" THEN 0 ELSE 1

(* enrolment keys: the first student in every term, the others in term 1 *)
GpaKeys == {k \in Nims \X Kodes \X (1..MaxSem) : k[1] = "n1" \/ k[3] = 1}

KeyId(k) == (NimIdx(k[1]) * 2 + KodeIdx(k[2])) * MaxSem + k[3]

GpaRows(K, g) ==
    { [id_krs |-> KeyId(k), nim |-> k[1], kode_mk |-> k[2],
       nilai |-> g[k], semester |-> k[3]] : k \in K }

InitGpa ==
    /\ \E N \in SUBSET Nims : mahasiswa = {[nim |-> n, nama |-> "x"] : n \in N}
    /\ mata_kuliah = {[kode_mk |-> k, sks |-> SksOf[k]] : k \in Kodes}
    /\ \E K \in SUBSET {k \in GpaKeys : \E m \in mahasiswa : m.nim = k[1]} :
         /\ Cardinality(K) <= MaxRows
         /\ \E g \in [K -> Grades] : krs = GpaRows(K, g)
    /\ krs_seq = 4 * MaxSem + 1
    /\ pc = [p \in Procs |-> "idle"]
    /\ req = [p \in Procs |-> NoReq]
    /\ auth = [p \in Procs |-> NoAuth]
    /\ conn = [p \in Procs |-> "none"]
    /\ txn = [p \in Procs |-> "none"]
    /\ pend = [p \in Procs |-> NoRow]
    /\ exc = [p \in Procs |-> "none"]
    /\ status = [p \in Procs |-> 0]
    /\ created_by = [p \in Procs |-> "-"]
    /\ checked = [p \in Procs |-> FALSE]
    /\ present = [p \in Procs |-> FALSE]
    /\ nreq = 0
    /\ report = NoReport

HitungIps(nim, semester) ==
    /\ report = NoReport
    /\ report' = hitung_ips(nim, semester)
    /\ UNCHANGED <<mahasiswa, mata_kuliah, krs, krs_seq, pc, req, auth, conn, txn,
                   pend, exc, status, created_by, checked, present, nreq>>

HitungIpk(nim) ==
    /\ report = NoReport
    /\ report' = hitung_ipk(nim)
    /\ UNCHANGED <<mahasiswa, mata_kuliah, krs, krs_seq, pc, req, auth, conn, txn,
                   pend, exc, status, created_by, checked, present, nreq>>

NextGpa ==
    \/ \E nim \in Nims, semester \in 1..(MaxSem + 1) : HitungIps(nim, semester)
    \/ \E nim \in Nims : HitungIpk(nim)

SpecGpa == InitGpa /\ [][NextGpa]_vars

----------------------------------------------------------------------------
(* Properties of the create endpoints (Spec) *)

SameTriple(a, b) ==
    /\ a.nim = b.nim
    /\ a.kode_mk = b.kode_mk
    /\ a.semester = b.semester

(* two finished create_nilai requests for one triple that both passed the
   duplicate check, i.e. both checks ran before either insert was committed *)
Raced(p, q) ==
    /\ p # q
    /\ pc[p] = "done" /\ pc[q] = "done"
    /\ req[p].op = "nilai" /\ req[q].op = "nilai"
    /\ SameTriple(req[p], req[q])
    /\ checked[p] /\ checked[q]

(* C1: two concurrent create-Enrollment requests for the same triple end as
   one success (201) and one Conflict (400), never as an Internal error *)
C1_OneSuccessOneConflict ==
    \A p, q \in Procs :
      Raced(p, q) => {status[p], status[q]} = {201, 400}

(* C2: no two Enrollment records share the same (student, course, term) *)
C2_NoDuplicateKrs ==
    \A a, b \in krs : SameTriple(a, b) => a = b

C2_Witness ==
    /\ \E p, q \in Procs : Raced(p, q)
    /\ Cardinality(krs) = 1

(* C3: a create-Enrollment request whose student or course is not stored ends
   with NotFound (404), its transaction rolled back and the three tables as
   they were; every stored Enrollment references a stored Student and Course *)
C3_State ==
    /\ \A p \in Procs :
         ( /\ pc[p] = "done"
           /\ req[p].op = "nilai"
           /\ Authorized(p)
           /\ \/ ~ \E m \in mahasiswa : m.nim = req[p].nim
              \/ ~ \E c \in mata_kuliah : c.kode_mk = req[p].kode_mk )
         => (status[p] = 404 /\ txn[p] = "rolledback")
    /\ \A k \in krs :
         /\ \E m \in mahasiswa : m.nim = k.nim
         /\ \E c \in mata_kuliah : c.kode_mk = k.kode_mk

C3_Step ==
    \A p \in Procs :
      (pc[p] = "exit" /\ pc'[p] = "done" /\ status'[p] = 404)
        => UNCHANGED storeVars

C3_NotFoundLeavesStore == []C3_State /\ [][C3_Step]_vars

C3_Witness ==
    \E p \in Procs :
      /\ pc[p] = "done" /\ req[p].op = "nilai" /\ Authorized(p)
      /\ status[p] = 404
      /\ mahasiswa # {}
      /\ mata_kuliah = {}

(* C4: a handler opens its store connection only after verify_admin returned
   the admin user; a request refused by the gate (401, 403, 503) never has a
   connection or transaction and leaves the tables unchanged; a successful
   create answers created_by = the username of the verified user *)
C4_State ==
    \A p \in Procs :
      /\ conn[p] # "none" => Authorized(p)
      /\ (pc[p] = "done" /\ ~Authorized(p)) =>
            /\ conn[p] = "none" /\ txn[p] = "none"
            /\ status[p] \in {401, 403, 503}
      /\ status[p] = 201 =>
            /\ created_by[p] = auth[p].resp.user.username
            /\ auth[p].resp.user.role = "admin"

C4_Step ==
    \A p \in Procs :
      (pc'[p] # pc[p] /\ ~Authorized(p)') => UNCHANGED storeVars

C4_GateBeforeStore == []C4_State /\ [][C4_Step]_vars

C4_Witness ==
    \E p, q \in Procs :
      /\ pc[p] = "done" /\ status[p] = 201 /\ created_by[p] = "adm"
      /\ pc[q] = "done" /\ status[q] = 403 /\ conn[q] = "none"

(* C7: the verdict of verify_admin: no credential -> 401 without calling the
   authority; authority unreachable -> 503; reachable and credential invalid
   -> 401; valid with a non-admin role -> 403; valid with role admin -> the
   user; the authority is called at most once *)
C7_GateVerdict ==
    \A p \in Procs :
      auth[p].code # -1 =>
        LET a == req[p].authorization
            r == auth[p].resp
        IN /\ auth[p].code \in {0, 401, 403, 503}
           /\ auth[p].calls <= 1
           /\ a = NoHeader => (auth[p].code = 401 /\ auth[p].calls = 0)
           /\ (a # NoHeader /\ ~r.reachable) => auth[p].code = 503
           /\ (a # NoHeader /\ r.reachable /\ r.status_code # 200)
                 => auth[p].code = 401
           /\ (a # NoHeader /\ r.reachable /\ r.status_code = 200 /\ r.json_ok
                 /\ r.user # NoUser /\ r.user.role # "admin")
                 => auth[p].code = 403
           /\ (a # NoHeader /\ r.reachable /\ r.status_code = 200 /\ r.json_ok
                 /\ r.user # NoUser /\ r.user.role = "admin")
                 => (auth[p].code = 0 /\ auth[p].user = r.user)

C7_Witness ==
    \E p, q \in Procs :
      /\ auth[p].code = 401 /\ auth[p].resp.reachable
      /\ auth[p].resp.status_code = 401
      /\ auth[q].code = 403 /\ auth[q].resp.user = PlainUser

(* C9: a create-Student or create-Course request whose id is already stored
   when it arrives ends with Conflict (400) and changes no table; no two
   Students share a nim and no two Courses share a kode_mk *)
C9_State ==
    /\ \A p \in Procs :
         ( /\ pc[p] = "done"
           /\ req[p].op \in {"mahasiswa", "mata_kuliah"}
           /\ Authorized(p)
           /\ present[p] )
         => (status[p] = 400 /\ txn[p] = "rolledback")
    /\ \A a, b \in mahasiswa : a.nim = b.nim => a = b
    /\ \A a, b \in mata_kuliah : a.kode_mk = b.kode_mk => a = b

C9_Step ==
    \A p \in Procs :
      ( /\ pc[p] = "exit" /\ pc'[p] = "done"
        /\ req[p].op \in {"mahasiswa", "mata_kuliah"}
        /\ present[p] )
      => UNCHANGED storeVars

C10_State ==
    \A p \in Procs :
      /\ pc[p] \in {"select1", "select2", "select3", "insert", "exit"}
           => (conn[p] = "open" /\ txn[p] = "active")
      /\ (pc[p] = "done" /\ Authorized(p)) =>
           /\ conn[p] = "closed"
           /\ txn[p] = "committed" <=> exc[p] = "none"
           /\ txn[p] = "rolledback" <=> exc[p] # "none"
           /\ txn[p] = "committed" <=> status[p] = 201

C10_Step ==
    storeVars' # storeVars =>
      \E p \in Procs :
        /\ pc[p] = "exit" /\ pc'[p] = "done"
        /\ exc[p] = "none" /\ pend[p] # NoRow
        /\ txn'[p] = "committed"
        /\ Cardinality(mahasiswa') + Cardinality(mata_kuliah') + Cardinality(krs')
             = Cardinality(mahasiswa) + Cardinality(mata_kuliah) + Cardinality(krs) + 1

C10_OneTransaction == []C10_State /\ [][C10_Step]_vars

C10_Witness ==
    \E p, q \in Procs :
      /\ pc[p] = "done" /\ txn[p] = "committed" /\ conn[p] = "closed"
      /\ pc[q] = "done" /\ txn[q] = "rolledback" /\ conn[q] = "closed"
      /\ status[q] = 400

----------------------------------------------------------------------------
(* Properties of the grade-point endpoints (SpecGpa) *)

Enrolled(nim, semester) == {r \in krs : r.nim = nim /\ r.semester = semester}

EnrolledAll(nim) == {r \in krs : r.nim = nim}

Weight(nilai) == IF nilai \in DOMAIN BobotNilai THEN BobotNilai[nilai] ELSE 0

CreditOf(kode_mk) == (CHOOSE c \in mata_kuliah : c.kode_mk = kode_mk).sks

RECURSIVE Points(_)
Points(S) ==
    IF S = {} THEN 0
    ELSE LET r == CHOOSE x \in S : TRUE
         IN Weight(r.nilai) * CreditOf(r.kode_mk) + Points(S \ {r})

RECURSIVE Credits(_)
Credits(S) ==
    IF S = {} THEN 0
    ELSE LET r == CHOOSE x \in S : TRUE
         IN CreditOf(r.kode_mk) + Credits(S \ {r})

Ratio2(S) == IF Credits(S) = 0 THEN 0 ELSE Round2(Points(S), Credits(S))

(* C5: the semester figure is (sum of weight x credits) / (sum of credits)
   over every enrolment of the student in the term, 0.0 for a zero credit sum;
   an enrolment without grade or without weight entry adds 0 to the numerator
   and its credits to the denominator *)
C5_SemesterGpa ==
    (report.kind = "ips" /\ report.status = 200) =>
      LET S == Enrolled(report.nim, report.semester) IN
        /\ report.total_sks = Credits(S)
        /\ report.total_mutu = 100 * Points(S)
        /\ report.ip = Ratio2(S)

C5_Witness ==
    /\ report.kind = "ips" /\ report.status = 200
    /\ \E a, b \in Enrolled(report.nim, report.semester) :
         a.nilai \in {NULL, "Z"} /\ b.nilai = "A"
    /\ report.ip = 300
    /\ report.total_sks = 4

GrandTotals ==
    LET S == EnrolledAll(report.nim) IN
      /\ report.total_sks = Credits(S)
      /\ report.total_mutu = 100 * Points(S)
      /\ report.ip = Ratio2(S)

(* the terms of the report differ pairwise in credit load and in exact GPA *)
TermsDiffer ==
    LET d == report.detail IN
      \A i, j \in 1..Len(d) :
        i # j => /\ d[i].total_sks # d[j].total_sks
                 /\ d[i].total_mutu * d[j].total_sks # d[j].total_mutu * d[i].total_sks

(* exact: total_mutu / total_sks = (sum of the per-term quotients) / terms *)
EqualsMeanOfTerms ==
    LET d == report.detail
        Prod[i \in 0..Len(d)] == IF i = 0 THEN 1 ELSE Prod[i - 1] * d[i].total_sks
        P == Prod[Len(d)]
        Scaled[i \in 0..Len(d)] ==
            IF i = 0 THEN 0
            ELSE Scaled[i - 1] + d[i].total_mutu * (P \div d[i].total_sks)
    IN report.total_mutu * Len(d) * P = report.total_sks * Scaled[Len(d)]

(* C6 as stated: the cumulative figure is grand-total points / grand-total
   credits, and it differs from the mean of the per-term figures whenever the
   terms carry different credit loads and different term GPAs *)
C6_DiffersWhenever ==
    (report.kind = "ipk" /\ report.status = 200) =>
      /\ GrandTotals
      /\ (Len(report.detail) >= 2 /\ TermsDiffer) => ~EqualsMeanOfTerms

(* C6 amended: the cumulative figure is grand-total points / grand-total
   credits, and it differs from the mean of the per-term figures whenever
   there are exactly two terms, with different credit loads and different
   term GPAs *)
C6_GrandTotals ==
    (report.kind = "ipk" /\ report.status = 200) =>
      /\ GrandTotals
      /\ (Len(report.detail) = 2 /\ TermsDiffer) => ~EqualsMeanOfTerms

C6_Witness ==
    /\ report.kind = "ipk" /\ report.status = 200
    /\ Len(report.detail) = 2 /\ TermsDiffer
    /\ report.total_sks = 4
    /\ report.ip = 350
    /\ report.detail[1].ips = 400 /\ report.detail[2].ips = 200

(* C8: the semester endpoint answers a report exactly when the student is
   stored and has an enrolment in the requested term, and 404 otherwise,
   whatever the student's enrolments in other terms *)
C8_SemesterNotFound ==
    report.kind = "ips" =>
      /\ report.status \in {200, 404}
      /\ report.status = 200 <=>
            /\ \E m \in mahasiswa : m.nim = report.nim
            /\ Enrolled(report.nim, report.semester) # {}

C8_Witness ==
    /\ report.kind = "ips" /\ report.status = 404
    /\ \E m \in mahasiswa : m.nim = report.nim
    /\ EnrolledAll(report.nim) # {}

====
